---- MODULE Spec2Model ----
(***************************************************************************)
(* Conversation history condensation engine of the agent SDK:              *)
(* View.from_events and the three view properties (tool-call matching,     *)
(* batch atomicity, tool-loop atomicity), the summarizing condenser, and   *)
(* the memory-bounded LRU cache of the io package.                         *)
(*                                                                         *)
(* The event log is an append-only sequence of event records.  Event ids   *)
(* are the positions at which the events were appended (unique, opaque).   *)
(* Python lists are 0-based; the sequences here are 1-based, so the Python *)
(* index i is the position i + 1.                                          *)
(***************************************************************************)
EXTENDS Integers, Sequences, FiniteSets, TLC

VARIABLES log, view, enforcement, warned, condenser, cache

vars == <<log, view, enforcement, warned, condenser, cache>>

(* ------------------------------ bounds --------------------------------- *)
MaxLog == 4
MaxResp == 2
MaxTc == 2
MaxForget == 1
MaxOffset == 2
MaxTurns == 7
MaxLongForget == 2
MaxCondensations == 2
MaxConversation == 5
MaxSizeBound == 6
KeepFirstBound == 1
TokenBudget == 5
MaxFed == 7
MaxKeepFirstFed == 2
MaxKeys == 3
MaxValueSize == 2
MaxMemory == 3
MaxEntries == 2
MaxCycleLog == 6
MaxCycle == 3
MaxLateLog == 7

(* --------------------------- program constants ------------------------- *)
max_iterations == 10
(* token_margin_ratio = 0.1, in percent *)
token_margin_percent == 10
(* the stub LLM of the token-budget scenario *)
StubContextWindow == 100
StubCountTokens == 200

(* ------------------------------ events --------------------------------- *)
(* Optional values (str | None, int | None) are sequences of length <= 1.  *)
None == <<>>
Some(x) == <<x>>

Event(id, kind, resp, tc, think, forgotten, summary, offset) ==
    [id |-> id, kind |-> kind, llm_response_id |-> resp, tool_call_id |-> tc,
     thinking_blocks |-> think, forgotten_event_ids |-> forgotten,
     summary |-> summary, summary_offset |-> offset]

MessageEvent(id) == Event(id, "MessageEvent", 0, 0, FALSE, {}, None, None)

ActionEvent(id, resp, tc, think) ==
    Event(id, "ActionEvent", resp, tc, think, {}, None, None)

ObservationKinds == {"ObservationEvent", "UserRejectObservation", "AgentErrorEvent"}

ObservationBaseEvent(id, kind, tc) == Event(id, kind, 0, tc, FALSE, {}, None, None)

CondensationRequest(id) == Event(id, "CondensationRequest", 0, 0, FALSE, {}, None, None)

Condensation(id, forgotten, summary, offset) ==
    Event(id, "Condensation", 0, 0, FALSE, forgotten, summary, offset)

(* The synthetic summary gets a fresh id; 0 is the id no log event has.    *)
CondensationSummaryEvent(summary) ==
    Event(0, "CondensationSummaryEvent", 0, 0, FALSE, {}, Some(summary), None)

IsActionEvent(e) == e.kind = "ActionEvent"

IsObservationBaseEvent(e) == e.kind \in ObservationKinds

IsCondensation(e) == e.kind = "Condensation"

IsCondensationRequest(e) == e.kind = "CondensationRequest"

IsLLMConvertibleEvent(e) ==
    e.kind \in {"MessageEvent", "ActionEvent", "CondensationSummaryEvent"} \cup ObservationKinds

(* ------------------------------ helpers -------------------------------- *)
Ids(events) == {events[i].id : i \in DOMAIN events}

Min(S) == CHOOSE x \in S : \A y \in S : x <= y

Max(S) == CHOOSE x \in S : \A y \in S : y <= x

(* [e for e in events if e.id not in removed] *)
WithoutIds(events, removed) == SelectSeq(events, LAMBDA e : e.id \notin removed)

(* list.insert(index, x) of Python, index counted from 0 *)
ListInsert(s, index, x) ==
    LET n == Len(s)
        at == IF index < 0 THEN (IF n + index < 0 THEN 0 ELSE n + index)
              ELSE (IF index > n THEN n ELSE index)
    IN SubSeq(s, 1, at) \o <<x>> \o SubSeq(s, at + 1, n)

(* ----------------------- ToolCallMatchingProperty ---------------------- *)
extract_action_tool_call_ids(events) ==
    {events[i].tool_call_id : i \in {j \in DOMAIN events : IsActionEvent(events[j])}}

extract_observation_tool_call_ids(events) ==
    {events[i].tool_call_id : i \in {j \in DOMAIN events : IsObservationBaseEvent(events[j])}}

(* a variant without the isinstance tests: whatever has no counterpart goes *)
ToolCallMatchingEnforce_untyped(current_view_events, all_events) ==
    LET action_tool_call_ids == extract_action_tool_call_ids(current_view_events)
        observation_tool_call_ids == extract_observation_tool_call_ids(current_view_events)
    IN {current_view_events[i].id : i \in {j \in DOMAIN current_view_events :
            LET event == current_view_events[j]
            IN \/ event.tool_call_id \notin observation_tool_call_ids
               \/ event.tool_call_id \notin action_tool_call_ids}}

(* a variant that returns after the orphaned actions when there are any *)
ToolCallMatchingEnforce_actions_first(current_view_events, all_events) ==
    LET action_tool_call_ids == extract_action_tool_call_ids(current_view_events)
        observation_tool_call_ids == extract_observation_tool_call_ids(current_view_events)
        actions == {current_view_events[i].id : i \in {j \in DOMAIN current_view_events :
                       /\ IsActionEvent(current_view_events[j])
                       /\ current_view_events[j].tool_call_id \notin observation_tool_call_ids}}
    IN IF actions # {} THEN actions
       ELSE {current_view_events[i].id : i \in {j \in DOMAIN current_view_events :
                /\ IsObservationBaseEvent(current_view_events[j])
                /\ current_view_events[j].tool_call_id \notin action_tool_call_ids}}

ToolCallMatchingEnforce(current_view_events, all_events) ==
    LET action_tool_call_ids == extract_action_tool_call_ids(current_view_events)
        observation_tool_call_ids == extract_observation_tool_call_ids(current_view_events)
    IN {current_view_events[i].id : i \in {j \in DOMAIN current_view_events :
            LET event == current_view_events[j]
            IN \/ IsActionEvent(event) /\ event.tool_call_id \notin observation_tool_call_ids
               \/ IsObservationBaseEvent(event) /\ event.tool_call_id \notin action_tool_call_ids}}

(* set(range(len(current_view_events) + 1)): every index, counted from 0 *)
ToolCallMatchingManipulationIndices(current_view_events, all_events) ==
    0..Len(current_view_events)

(* ------------------------ BatchAtomicityProperty ----------------------- *)
EventIds(events) == [i \in DOMAIN events |-> events[i].id]

(* batches[event.llm_response_id].append(event.id), over the ActionEvents *)
batches_of(actions) ==
    [r \in {actions[i].llm_response_id : i \in DOMAIN actions} |->
        EventIds(SelectSeq(actions, LAMBDA e : e.llm_response_id = r))]

(* llm_response_id -> list of the ids of its ActionEvents, in list order   *)
build_batches(events) == batches_of(SelectSeq(events, IsActionEvent))

(* event id -> position in the list (a later duplicate wins, as in a dict) *)
build_event_id_to_index(events) ==
    [id \in Ids(events) |-> Max({i \in DOMAIN events : events[i].id = id})]

(* the batches of which the view holds some but not all actions *)
partial_batches(all_batches, view_batches) ==
    {r \in DOMAIN all_batches :
        /\ r \in DOMAIN view_batches
        /\ Len(view_batches[r]) < Len(all_batches[r])}

(* events_to_remove.update(view_batches[llm_response_id]) *)
batch_events_to_remove(view_batches, partial) ==
    UNION {{view_batches[r][i] : i \in DOMAIN view_batches[r]} : r \in partial}

BatchAtomicityEnforce(current_view_events, all_events) ==
    batch_events_to_remove(
        build_batches(current_view_events),
        partial_batches(build_batches(all_events), build_batches(current_view_events)))

(* (min(indices), max(indices)) *)
min_max_of(indices) == <<Min(indices), Max(indices)>>

(* atomic_ranges: (min_idx, max_idx) of every batch with more than one    *)
(* action, as positions counted from 1                                    *)
batch_atomic_ranges(batches, event_id_to_index) ==
    {min_max_of({event_id_to_index[batches[r][i]] : i \in DOMAIN batches[r]})
        : r \in {q \in DOMAIN batches : Len(batches[q]) > 1}}

(* a variant that also discards the index in front of the batch *)
valid_indices_outside_closed(atomic_ranges, total_events) ==
    {i \in 0..total_events :
        \A extent \in atomic_ranges : ~(extent[1] - 1 <= i /\ i <= extent[2] - 1)}

(* valid_indices minus range(min_idx + 1, max_idx + 1) of every range.    *)
(* The code's index min_idx is the position extent[1] - 1 here, so the    *)
(* discarded indices min_idx + 1 .. max_idx are extent[1] .. extent[2] - 1 *)
valid_indices_outside(atomic_ranges, total_events) ==
    {i \in 0..total_events :
        \A extent \in atomic_ranges : ~(extent[1] <= i /\ i <= extent[2] - 1)}

BatchAtomicityManipulationIndices(current_view_events, all_events) ==
    valid_indices_outside(
        batch_atomic_ranges(build_batches(current_view_events),
                            build_event_id_to_index(current_view_events)),
        Len(current_view_events))

(* ----------------------- ToolLoopAtomicityProperty --------------------- *)
extent_of_indices(indices) == <<Min(indices), Max(indices)>>

get_batch_extent(action_ids, event_id_to_index) ==
    extent_of_indices({event_id_to_index[action_ids[i]] : i \in DOMAIN action_ids})

RECURSIVE SortByMinIdx(_)
SortByMinIdx(ranges) ==
    IF ranges = {} THEN <<>>
    ELSE LET first == CHOOSE b \in ranges : \A c \in ranges : b.min_idx <= c.min_idx
         IN <<first>> \o SortByMinIdx(ranges \ {first})

has_thinking_blocks(event) == IsActionEvent(event) /\ event.thinking_blocks

(* one entry of batch_ranges *)
batch_range(action_ids, extent, events, event_id_to_index) ==
    [min_idx |-> extent[1], max_idx |-> extent[2],
     has_thinking |-> \E i \in DOMAIN action_ids :
         has_thinking_blocks(events[event_id_to_index[action_ids[i]]]),
     action_ids |-> action_ids]

build_batch_ranges(batches, events, event_id_to_index) ==
    SortByMinIdx({batch_range(batches[r], get_batch_extent(batches[r], event_id_to_index),
                              events, event_id_to_index) : r \in DOMAIN batches})

(* the first while loop of _scan_tool_loop_extent: <<loop_end, j>> *)
RECURSIVE ScanBatches(_, _, _, _)
ScanBatches(j, loop_end, batch_ranges, events) ==
    IF j > Len(batch_ranges) THEN <<loop_end, j>>
    ELSE IF \A idx \in (loop_end + 1)..(batch_ranges[j].min_idx - 1) :
                IsActionEvent(events[idx]) \/ IsObservationBaseEvent(events[idx])
         THEN ScanBatches(j + 1, batch_ranges[j].max_idx, batch_ranges, events)
         ELSE <<loop_end, j>>

(* the second while loop of _scan_tool_loop_extent: the final loop_end *)
RECURSIVE ScanTrailing(_, _, _)
ScanTrailing(scan_idx, loop_end, events) ==
    IF scan_idx > Len(events) THEN loop_end
    ELSE IF IsObservationBaseEvent(events[scan_idx])
         THEN ScanTrailing(scan_idx + 1, scan_idx, events)
         ELSE loop_end

(* return loop_start, loop_end, j *)
tool_loop_extent(loop_start, scanned, events) ==
    <<loop_start, ScanTrailing(scanned[1] + 1, scanned[1], events), scanned[2]>>

(* <<loop_start, loop_end, next_batch_idx>> *)
scan_tool_loop_extent(start_idx, batch_ranges, events) ==
    tool_loop_extent(batch_ranges[start_idx].min_idx,
                     ScanBatches(start_idx + 1, batch_ranges[start_idx].max_idx,
                                 batch_ranges, events),
                     events)

(* the while loop shared by _identify_tool_loops and manipulation_indices: *)
(* the <<loop_start, loop_end>> ranges, in order                           *)
RECURSIVE ToolLoopRanges(_, _, _)
RECURSIVE ToolLoopRangesAfter(_, _, _)
ToolLoopRangesAfter(extent, batch_ranges, events) ==
    <<<<extent[1], extent[2]>>>> \o ToolLoopRanges(extent[3], batch_ranges, events)

ToolLoopRanges(i, batch_ranges, events) ==
    IF i > Len(batch_ranges) THEN <<>>
    ELSE IF batch_ranges[i].has_thinking
         THEN ToolLoopRangesAfter(scan_tool_loop_extent(i, batch_ranges, events),
                                  batch_ranges, events)
         ELSE ToolLoopRanges(i + 1, batch_ranges, events)

(* loop_event_ids = [events[idx].id for idx in range(loop_start, loop_end + 1)] *)
loop_event_ids(ranges, events) ==
    [k \in DOMAIN ranges |->
        [n \in 1..(ranges[k][2] - ranges[k][1] + 1) |-> events[ranges[k][1] + n - 1].id]]

(* list of tool loops, each the list of the event ids in its range *)
identify_tool_loops(events) ==
    loop_event_ids(
        ToolLoopRanges(1,
                       build_batch_ranges(build_batches(events), events,
                                          build_event_id_to_index(events)),
                       events),
        events)

(* loop_events_in_view = [eid for eid in loop_event_ids if eid in view_event_ids] *)
loop_events_in_view(loop, view_event_ids) ==
    SelectSeq(loop, LAMBDA eid : eid \in view_event_ids)

(* the tool loops of which the view holds some but not all events *)
partial_tool_loops(tool_loops, view_event_ids) ==
    {k \in DOMAIN tool_loops :
        /\ Len(loop_events_in_view(tool_loops[k], view_event_ids)) > 0
        /\ Len(loop_events_in_view(tool_loops[k], view_event_ids)) < Len(tool_loops[k])}

(* events_to_remove.update(loop_events_in_view) *)
loop_events_to_remove(tool_loops, view_event_ids, partial) ==
    UNION {{tool_loops[k][n] : n \in {m \in DOMAIN tool_loops[k] :
                                         tool_loops[k][m] \in view_event_ids}}
           : k \in partial}

tool_loop_enforce(tool_loops, view_event_ids) ==
    loop_events_to_remove(tool_loops, view_event_ids,
                          partial_tool_loops(tool_loops, view_event_ids))

ToolLoopAtomicityEnforce(current_view_events, all_events) ==
    tool_loop_enforce(identify_tool_loops(all_events), Ids(current_view_events))

(* ViewPropertyBase._build_manipulation_indices_from_atomic_ranges: every  *)
(* index of 0..total_events that is not strictly inside a range, i.e. not *)
(* in range(start + 1, end + 1) of the code's indices                     *)
build_manipulation_indices_from_atomic_ranges(atomic_ranges, total_events) ==
    {i \in 0..total_events :
        \A k \in DOMAIN atomic_ranges :
            ~(atomic_ranges[k][1] <= i /\ i <= atomic_ranges[k][2] - 1)}

(* tool_loop_ranges of manipulation_indices: computed over the view *)
tool_loop_ranges(current_view_events) ==
    ToolLoopRanges(1,
                   build_batch_ranges(build_batches(current_view_events),
                                      current_view_events,
                                      build_event_id_to_index(current_view_events)),
                   current_view_events)

ToolLoopAtomicityManipulationIndices(current_view_events, all_events) ==
    build_manipulation_indices_from_atomic_ranges(
        tool_loop_ranges(current_view_events), Len(current_view_events))

(* --------------------------- View.from_events -------------------------- *)
(* a variant that reads only the most recent Condensation *)
forgotten_event_ids_last_only(events) ==
    LET cs == {j \in DOMAIN events : IsCondensation(events[j])}
    IN (IF cs = {} THEN {} ELSE events[Max(cs)].forgotten_event_ids)
         \cup {events[i].id : i \in cs}
         \cup {events[i].id : i \in {j \in DOMAIN events : IsCondensationRequest(events[j])}}

(* first loop: the ids a view never shows *)
forgotten_event_ids(events) ==
    UNION {events[i].forgotten_event_ids \cup {events[i].id} :
              i \in {j \in DOMAIN events : IsCondensation(events[j])}}
      \cup {events[i].id : i \in {j \in DOMAIN events : IsCondensationRequest(events[j])}}

(* a variant that lists the Condensations that carry a summary *)
condensations_with_summary(events) ==
    SelectSeq(events, LAMBDA event : IsCondensation(event) /\ event.summary # None)

(* condensations.append(event) for every Condensation, in the order of the *)
(* events                                                                  *)
condensations(events) == SelectSeq(events, IsCondensation)

kept_events(events) ==
    LET forgotten == forgotten_event_ids(events)
    IN SelectSeq(events, LAMBDA event :
           event.id \notin forgotten /\ IsLLMConvertibleEvent(event))

(* a variant that scans the events in log order *)
relevant_summary_first(events, i) ==
    LET such == {j \in 1..i : /\ IsCondensation(events[j])
                              /\ events[j].summary # None
                              /\ events[j].summary_offset # None}
    IN IF such = {} THEN <<>> ELSE <<events[Min(such)]>>

(* for event in reversed(events): the first Condensation with a summary    *)
(* and an offset, as a list of at most one event                           *)
RECURSIVE relevant_summary(_, _)
relevant_summary(events, i) ==
    IF i = 0 THEN <<>>
    ELSE IF /\ IsCondensation(events[i])
            /\ events[i].summary # None
            /\ events[i].summary_offset # None
         THEN <<events[i]>>
         ELSE relevant_summary(events, i - 1)

(* a variant that inserts the Condensation instead of a summary event *)
kept_with_summary_insert_condensation(events) ==
    LET found == relevant_summary(events, Len(events))
    IN IF found = <<>> THEN kept_events(events)
       ELSE ListInsert(kept_events(events), found[1].summary_offset[1], found[1])

(* a variant that puts the summary after the kept events *)
insert_summary_appended(kept, found) ==
    IF found = <<>> THEN kept
    ELSE Append(kept, CondensationSummaryEvent(found[1].summary[1]))

(* kept_events.insert(summary_offset, _new_summary_event) *)
insert_summary(kept, found) ==
    IF found = <<>> THEN kept
    ELSE ListInsert(kept, found[1].summary_offset[1],
                    CondensationSummaryEvent(found[1].summary[1]))

kept_with_summary(events) ==
    insert_summary(kept_events(events), relevant_summary(events, Len(events)))

(* a variant that does not stop at a Condensation *)
unhandled_condensation_request_any(events, i) ==
    \E j \in 1..i : IsCondensationRequest(events[j])

(* for event in reversed(events): a CondensationRequest before any Condensation *)
RECURSIVE unhandled_condensation_request(_, _)
unhandled_condensation_request(events, i) ==
    IF i = 0 THEN FALSE
    ELSE IF IsCondensation(events[i]) THEN FALSE
         ELSE IF IsCondensationRequest(events[i]) THEN TRUE
              ELSE unhandled_condensation_request(events, i - 1)

(* for prop in properties: ... if events_to_remove: ... break *)
first_non_empty(tcm, batch, loop) ==
    IF tcm # {} THEN [prop |-> "ToolCallMatchingProperty", removed |-> tcm]
    ELSE IF batch # {} THEN [prop |-> "BatchAtomicityProperty", removed |-> batch]
    ELSE IF loop # {} THEN [prop |-> "ToolLoopAtomicityProperty", removed |-> loop]
    ELSE [prop |-> "none", removed |-> {}]

(* a variant without the break: a pass collects the drops of all enforcers *)
first_removal_union(view_events, events) ==
    [prop |-> first_non_empty(ToolCallMatchingEnforce(view_events, events),
                              BatchAtomicityEnforce(view_events, events),
                              ToolLoopAtomicityEnforce(view_events, events)).prop,
     removed |-> ToolCallMatchingEnforce(view_events, events)
                   \cup BatchAtomicityEnforce(view_events, events)
                   \cup ToolLoopAtomicityEnforce(view_events, events)]

(* one pass over properties: the first enforcer with a non-empty drop set  *)
first_removal(view_events, events) ==
    first_non_empty(ToolCallMatchingEnforce(view_events, events),
                    BatchAtomicityEnforce(view_events, events),
                    ToolLoopAtomicityEnforce(view_events, events))

(* a variant that makes a single pass over the properties *)
enforce_single_pass(view_events, events, rounds) ==
    [events |-> WithoutIds(view_events, first_removal(view_events, events).removed),
     rounds |-> IF first_removal(view_events, events).removed = {} THEN rounds
                ELSE Append(rounds, first_removal(view_events, events)),
     warned |-> FALSE]

(* for iteration in range(max_iterations) ... else: warning.               *)
(* rounds is the list of the removals made, one entry per iteration that   *)
(* removed events (the debug lines of the loop)                            *)
RECURSIVE enforce_properties(_, _, _)
RECURSIVE enforce_iteration(_, _, _, _)
(* the body of one iteration, given what the pass over properties removes  *)
enforce_iteration(step, view_events, events, rounds) ==
    IF step.removed = {}
    THEN [events |-> view_events, rounds |-> rounds, warned |-> FALSE]
    ELSE enforce_properties(WithoutIds(view_events, step.removed), events,
                            Append(rounds, step))

enforce_properties(view_events, events, rounds) ==
    IF Len(rounds) = max_iterations
    THEN [events |-> view_events, rounds |-> rounds, warned |-> TRUE]
    ELSE enforce_iteration(first_removal(view_events, events), view_events, events, rounds)

(* a variant that hands the log to the properties instead of the view *)
final_indices_over_log(view_events, events) ==
    IF view_events = <<>> THEN {0}
    ELSE ToolCallMatchingManipulationIndices(view_events, events)
           \cap BatchAtomicityManipulationIndices(events, events)
           \cap ToolLoopAtomicityManipulationIndices(events, events)

(* {0} for an empty view, else the intersection of all_indices *)
final_indices(view_events, events) ==
    IF view_events = <<>> THEN {0}
    ELSE ToolCallMatchingManipulationIndices(view_events, events)
           \cap BatchAtomicityManipulationIndices(view_events, events)
           \cap ToolLoopAtomicityManipulationIndices(view_events, events)

(* return View(events=view_events, ...), with the record of the loop *)
view_of(enforced, events) ==
    [view |-> [events |-> enforced.events,
               unhandled_condensation_request |->
                   unhandled_condensation_request(events, Len(events)),
               condensations |-> condensations(events),
               manipulation_indices |-> final_indices(enforced.events, events)],
     rounds |-> enforced.rounds,
     warned |-> enforced.warned]

from_events(events) ==
    view_of(enforce_properties(kept_with_summary(events), events, <<>>), events)

(* ------------------------ summary accessors of View -------------------- *)
(* View.summary_event_index: the summary_offset of the most recent         *)
(* Condensation when it has a summary and an offset, else None             *)
summary_index_of(recent) ==
    IF recent # <<>> /\ recent[1].summary # None /\ recent[1].summary_offset # None
    THEN Some(recent[1].summary_offset[1])
    ELSE None

most_recent_condensation(v) ==
    IF v.condensations = <<>> THEN None
    ELSE Some(v.condensations[Len(v.condensations)])

summary_event_index(v) == summary_index_of(most_recent_condensation(v))

(* self.events[index]: IndexError when the index is not below len(events), *)
(* None when the event there is no CondensationSummaryEvent                *)
summary_event_at(events, index) ==
    IF index = None THEN [raised |-> FALSE, event |-> None]
    ELSE IF index[1] >= Len(events) THEN [raised |-> TRUE, event |-> None]
    ELSE IF events[index[1] + 1].kind = "CondensationSummaryEvent"
         THEN [raised |-> FALSE, event |-> Some(events[index[1] + 1])]
         ELSE [raised |-> FALSE, event |-> None]

(* View.summary_event *)
summary_event(v) == summary_event_at(v.events, summary_event_index(v))

(* ------------------------------ token accountant ----------------------- *)
(* count_tokens of the LLM: a tool output costs two tokens, any other      *)
(* event one                                                               *)
token_cost(event) == IF IsObservationBaseEvent(event) THEN 2 ELSE 1

RECURSIVE estimate_token_count(_)
estimate_token_count(events) ==
    IF events = <<>> THEN 0
    ELSE token_cost(events[1]) + estimate_token_count(Tail(events))

(* count_tokens of the LLM handle: a stub that answers a fixed number, or   *)
(* the count per event                                                     *)
count_tokens(counter, events) ==
    IF counter = None THEN estimate_token_count(events) ELSE counter[1]

(* token_budget = floor(context_window * (1 - m)), the margin in percent;  *)
(* None without a context window                                           *)
compute_token_budget(context_window, margin_percent) ==
    IF context_window = None THEN None
    ELSE Some((context_window[1] * (100 - margin_percent)) \div 100)

(* the tail lengths k of 0..len(view) - keep_first for which               *)
(* view[..keep_first] ++ view[len - k..] costs at most the budget          *)
tails_within_budget(events, keep_first, budget, counter) ==
    {k \in 0..Max({0, Len(events) - keep_first}) :
        count_tokens(counter,
                     SubSeq(events, 1, Min({keep_first, Len(events)}))
                       \o SubSeq(events, Len(events) - k + 1, Len(events)))
            <= budget}

largest_or_zero(S) == IF S = {} THEN 0 ELSE Max(S)

max_tail_within_budget(events, keep_first, budget, counter) ==
    largest_or_zero(tails_within_budget(events, keep_first, budget, counter))

(* ------------------------ LLMSummarizingCondenser ---------------------- *)
(* a variant that accepts a tail of no event *)
valid_configuration_empty_tail(max_size, keep_first) ==
    /\ max_size > 0
    /\ keep_first >= 0
    /\ (max_size \div 2) - keep_first - 1 >= 0

(* a variant that compares keep_first with max_size, not with its half *)
valid_configuration_no_halving(max_size, keep_first) ==
    /\ max_size > 0
    /\ keep_first >= 0
    /\ max_size - keep_first - 1 > 0

(* validate_keep_first_vs_max_size and the Field constraints *)
valid_configuration(max_size, keep_first) ==
    /\ max_size > 0
    /\ keep_first >= 0
    /\ (max_size \div 2) - keep_first - 1 > 0

(* a variant that falls through to the count test when the tokens fit *)
should_condense_count_too(v, c, token_failure) ==
    \/ v.unhandled_condensation_request
    \/ c.budget # None /\ ~token_failure
          /\ count_tokens(c.count_tokens, v.events) > c.budget[1]
    \/ Len(v.events) > c.max_size

(* a variant that condenses over budget only when the view is also longer  *)
(* than max_size                                                           *)
should_condense_both(v, c, token_failure) ==
    IF v.unhandled_condensation_request THEN TRUE
    ELSE IF c.budget # None /\ ~token_failure
         THEN /\ count_tokens(c.count_tokens, v.events) > c.budget[1]
              /\ Len(v.events) > c.max_size
         ELSE Len(v.events) > c.max_size

(* a variant whose token check answers False when the computation raised *)
should_condense_no_fallback(v, c, token_failure) ==
    IF v.unhandled_condensation_request THEN TRUE
    ELSE IF c.budget # None
         THEN ~token_failure /\ count_tokens(c.count_tokens, v.events) > c.budget[1]
         ELSE Len(v.events) > c.max_size

(* token_failure: computing the budget or the estimate raised *)
should_condense(v, c, token_failure) ==
    IF v.unhandled_condensation_request THEN TRUE
    ELSE IF c.budget # None /\ ~token_failure
         THEN count_tokens(c.count_tokens, v.events) > c.budget[1]
         ELSE Len(v.events) > c.max_size

(* a Python slice bound on a list of n items *)
slice_bound(i, n) == IF i < 0 THEN Max({0, n + i}) ELSE Min({i, n})

(* s[start:stop] *)
PySlice(s, start, stop) ==
    SubSeq(s, slice_bound(start, Len(s)) + 1, slice_bound(stop, Len(s)))

(* s[start:] *)
PySliceFrom(s, start) == SubSeq(s, slice_bound(start, Len(s)) + 1, Len(s))

(* target_size: max_size // 2, or len(view) // 2 on a condensation request *)
target_size(v, c) ==
    IF v.unhandled_condensation_request THEN Len(v.events) \div 2 ELSE c.max_size \div 2

(* max(0, target_size - len(head) - 1), head being view[:keep_first] *)
count_based_tail(v, c) ==
    Max({0, target_size(v, c) - Len(PySlice(v.events, 0, c.keep_first)) - 1})

(* events_from_tail: token-aware when a budget exists and nothing raised *)
events_from_tail(v, c, token_failure) ==
    IF c.budget # None /\ ~token_failure
    THEN max_tail_within_budget(v.events, c.keep_first, c.budget[1], c.count_tokens)
    ELSE count_based_tail(v, c)

(* view[keep_first : -events_from_tail], or view[keep_first:] for a tail of 0 *)
forgotten_events(events, keep_first, tail) ==
    IF tail > 0 THEN PySlice(events, keep_first, 0 - tail)
    ELSE PySliceFrom(events, keep_first)

(* the Condensation that get_condensation returns *)
condensation_of(id, forgotten, summary, keep_first) ==
    Condensation(id, Ids(forgotten), summary, Some(keep_first))

(* llm.completion(messages): it raises (failure, timeout, cancellation), or *)
(* returns a response whose first content is a text or is not              *)
LLMResponse(raised, summary) == [raised |-> raised, summary |-> summary]

IsMessageEvent(e) == e.kind = "MessageEvent"

(* llm_message.content[0].text of a MessageEvent: texts are opaque, the    *)
(* text of a message is told apart from the text of a summary by its sign  *)
message_text(event) == Some(0 - event.id)

(* summary_event_content: the text of view.summary_event when it is a      *)
(* MessageEvent, else the empty string                                     *)
summary_event_content(found) ==
    IF found # None /\ IsMessageEvent(found[1]) THEN message_text(found[1]) ELSE None

(* a variant that answers a failed completion with a Condensation that     *)
(* has no summary                                                          *)
get_condensation_partial(v, c, token_failure, llm_response, id) ==
    IF summary_event(v).raised
    THEN [raised |-> TRUE, llm_failed |-> FALSE, condensation |-> None,
          previous_summary |-> None,
          events_from_tail |-> events_from_tail(v, c, token_failure)]
    ELSE [raised |-> FALSE, llm_failed |-> llm_response.raised,
          condensation |-> Some(condensation_of(
              id,
              forgotten_events(v.events, c.keep_first, events_from_tail(v, c, token_failure)),
              llm_response.summary, c.keep_first)),
          previous_summary |-> summary_event_content(summary_event(v).event),
          events_from_tail |-> events_from_tail(v, c, token_failure)]

(* get_condensation: raised when view.summary_event raises (line 85) or    *)
(* when llm.completion raises (line 112), else the Condensation; the       *)
(* summary is None when the response has no text content; id is the id of  *)
(* the new event                                                           *)
get_condensation(v, c, token_failure, llm_response, id) ==
    IF summary_event(v).raised
    THEN [raised |-> TRUE, llm_failed |-> FALSE, condensation |-> None,
          previous_summary |-> None,
          events_from_tail |-> events_from_tail(v, c, token_failure)]
    ELSE IF llm_response.raised
    THEN [raised |-> TRUE, llm_failed |-> TRUE, condensation |-> None,
          previous_summary |-> summary_event_content(summary_event(v).event),
          events_from_tail |-> events_from_tail(v, c, token_failure)]
    ELSE [raised |-> FALSE, llm_failed |-> FALSE,
          condensation |-> Some(condensation_of(
              id,
              forgotten_events(v.events, c.keep_first, events_from_tail(v, c, token_failure)),
              llm_response.summary, c.keep_first)),
          previous_summary |-> summary_event_content(summary_event(v).event),
          events_from_tail |-> events_from_tail(v, c, token_failure)]

(* ------------------- View of the module context/view.py ---------------- *)
(* View._enforce_batch_atomicity: the actions of a batch with a forgotten  *)
(* action are forgotten                                                    *)
enforce_batch_atomicity(events, forgotten) ==
    forgotten \cup
      {events[i].id : i \in {j \in DOMAIN events :
          /\ IsActionEvent(events[j])
          /\ \E k \in DOMAIN events :
                /\ IsActionEvent(events[k])
                /\ events[k].llm_response_id = events[j].llm_response_id
                /\ events[k].id \in forgotten}}

(* the batch of event_to_keep and the observations of its tool calls *)
batch_event_ids(events, event_to_keep) ==
    {events[i].id : i \in {j \in DOMAIN events :
        \/ /\ IsActionEvent(events[j])
           /\ events[j].llm_response_id = event_to_keep.llm_response_id
        \/ /\ IsObservationBaseEvent(events[j])
           /\ \E k \in DOMAIN events :
                 /\ IsActionEvent(events[k])
                 /\ events[k].llm_response_id = event_to_keep.llm_response_id
                 /\ events[k].tool_call_id = events[j].tool_call_id}}

(* the positions of the ActionEvents with thinking blocks *)
events_with_thinking(events) ==
    {i \in DOMAIN events : has_thinking_blocks(events[i])}

(* no kept event has thinking blocks: the most recent forgotten one is     *)
(* kept with its batch                                                     *)
keep_most_recent_thinking(events, forgotten, with_thinking) ==
    IF with_thinking = {} THEN forgotten
    ELSE IF \E i \in with_thinking : events[i].id \notin forgotten THEN forgotten
    ELSE forgotten \ batch_event_ids(events, events[Max(with_thinking)])

(* View._ensure_thinking_block_preservation *)
ensure_thinking_block_preservation(events, forgotten) ==
    IF \A i \in DOMAIN events : IsActionEvent(events[i]) => events[i].id \in forgotten
    THEN forgotten
    ELSE keep_most_recent_thinking(events, forgotten, events_with_thinking(events))

(* View._should_keep_event *)
should_keep_event(event, action_tool_call_ids, observation_tool_call_ids) ==
    IF IsObservationBaseEvent(event) THEN event.tool_call_id \in action_tool_call_ids
    ELSE IF IsActionEvent(event) THEN event.tool_call_id \in observation_tool_call_ids
    ELSE TRUE

(* View.filter_unmatched_tool_calls *)
filter_unmatched_tool_calls(events) ==
    SelectSeq(events, LAMBDA event :
        should_keep_event(event, extract_action_tool_call_ids(events),
                          extract_observation_tool_call_ids(events)))

(* the kept events of context/view.py for a set of forgotten ids *)
kept_events_of(events, forgotten) ==
    SelectSeq(events, LAMBDA event :
        event.id \notin forgotten /\ IsLLMConvertibleEvent(event))

(* the forgotten ids after batch atomicity and thinking-block preservation *)
final_forgotten_event_ids(events) ==
    ensure_thinking_block_preservation(
        events, enforce_batch_atomicity(events, forgotten_event_ids(events)))

(* View.from_events of context/view.py *)
view_py_from_events(events) ==
    [events |-> filter_unmatched_tool_calls(
                    insert_summary(kept_events_of(events, final_forgotten_event_ids(events)),
                                   relevant_summary(events, Len(events)))),
     unhandled_condensation_request |-> unhandled_condensation_request(events, Len(events)),
     condensations |-> condensations(events)]

(* ---------------------------- MemoryLRUCache --------------------------- *)
(* A cache is its limits, the keys from the least to the most recently     *)
(* used, the size (sys.getsizeof) of the value of each key, 0 for a key    *)
(* that is not cached, and the current_memory counter.                     *)
Keys == 1..MaxKeys

MemoryLRUCache(max_memory, maxsize) ==
    [max_memory |-> max_memory, maxsize |-> Max({1, maxsize}), order |-> <<>>,
     values |-> [k \in Keys |-> 0], current_memory |-> 0]

(* the state of a run that has no cache *)
NoCache == MemoryLRUCache(0, 0)

InCache(c, key) == \E i \in DOMAIN c.order : c.order[i] = key

WithoutKey(order, key) == SelectSeq(order, LAMBDA k : k # key)

(* LRUCache.__getitem__: the key becomes the most recently used *)
cache_getitem(c, key) == [c EXCEPT !.order = Append(WithoutKey(@, key), key)]

(* MemoryLRUCache.__delitem__ of a cached key *)
cache_delitem(c, key) ==
    [c EXCEPT !.current_memory = @ - c.values[key],
              !.order = WithoutKey(@, key),
              !.values[key] = 0]

(* LRUCache.popitem: pop(key) of the least recently used key, which        *)
(* deletes it with del self[key], that is MemoryLRUCache.__delitem__       *)
cache_popitem(c) == cache_delitem(c, Head(c.order))

(* the eviction loop of __setitem__: popitem, then                         *)
(* current_memory -= size of the evicted value                             *)
RECURSIVE evict_until_under_memory(_)
evict_until_under_memory(c) ==
    IF c.current_memory > c.max_memory /\ Len(c.order) > 0
    THEN evict_until_under_memory(
             [cache_popitem(c) EXCEPT !.current_memory = @ - c.values[Head(c.order)]])
    ELSE c

(* the loop of Cache.__setitem__ for a new key, every value counting 1:   *)
(* while currsize + 1 > maxsize: popitem                                   *)
RECURSIVE evict_until_under_maxsize(_)
evict_until_under_maxsize(c) ==
    IF Len(c.order) + 1 > c.maxsize /\ Len(c.order) > 0
    THEN evict_until_under_maxsize(cache_popitem(c))
    ELSE c

(* LRUCache.__setitem__: room for a new key, then the value is stored and  *)
(* the key becomes the most recently used                                  *)
lru_setitem(c, key, new_size) ==
    IF InCache(c, key)
    THEN [c EXCEPT !.values[key] = new_size,
                   !.order = Append(WithoutKey(@, key), key)]
    ELSE [evict_until_under_maxsize(c) EXCEPT
              !.values[key] = new_size,
              !.order = Append(@, key)]

(* lines 48-53: the old value is read (which uses the key) and its size    *)
(* leaves the counter; the new size enters it                              *)
account_new_value(c, key, new_size) ==
    IF InCache(c, key)
    THEN [cache_getitem(c, key) EXCEPT
              !.current_memory = @ - c.values[key] + new_size]
    ELSE [c EXCEPT !.current_memory = @ + new_size]

(* MemoryLRUCache.__setitem__ *)
cache_setitem(c, key, new_size) ==
    IF new_size > c.max_memory THEN c
    ELSE lru_setitem(evict_until_under_memory(account_new_value(c, key, new_size)),
                     key, new_size)

(* ------------------------------ the log -------------------------------- *)
EmptyView == [events |-> <<>>, unhandled_condensation_request |-> FALSE,
              condensations |-> <<>>, manipulation_indices |-> {0}]

(* the record of the last call of the condenser; none after an append *)
NoCall == [called |-> FALSE, snapshot |-> EmptyView, should |-> FALSE,
           token_failure |-> FALSE, raised |-> FALSE, llm_failed |-> FALSE,
           events_from_tail |-> None, previous_summary |-> None, emitted |-> None]

(* LLMSummarizingCondenser(llm, max_size, keep_first): constructed is      *)
(* false when the validation raised                                        *)
LLMSummarizingCondenser(max_size, keep_first, budget, counter) ==
    [max_size |-> max_size, keep_first |-> keep_first, budget |-> budget,
     count_tokens |-> counter,
     constructed |-> valid_configuration(max_size, keep_first), last |-> NoCall]

(* a conversation without condenser *)
NoCondenser == [max_size |-> 0, keep_first |-> 0, budget |-> None, count_tokens |-> None,
                constructed |-> FALSE, last |-> NoCall]

Init ==
    /\ log = <<>>
    /\ view = EmptyView
    /\ enforcement = <<>>
    /\ warned = FALSE
    /\ condenser = NoCondenser
    /\ cache = NoCache

(* append one event to the log and derive the view of the new log *)
DeriveNext(derived) ==
    /\ view' = derived.view
    /\ enforcement' = derived.rounds
    /\ warned' = derived.warned

AppendAndDerive(event) ==
    /\ log' = Append(log, event)
    /\ DeriveNext(from_events(Append(log, event)))
    /\ condenser' = [condenser EXCEPT !.last = NoCall]
    /\ cache' = cache

NextId == Len(log) + 1

(* Ids are opaque, so a new llm_response_id or tool_call_id is the next    *)
(* unused number: logs that differ only by a renaming are the same log.    *)
UsedResp == {log[i].llm_response_id : i \in DOMAIN log}

UsedTc == {log[i].tool_call_id : i \in DOMAIN log}

RespChoices == {r \in 1..MaxResp : r = 1 \/ (r - 1) \in UsedResp}

TcChoices == {t \in 1..MaxTc : t = 1 \/ (t - 1) \in UsedTc}

AppendMessage ==
    /\ Len(log) < MaxLog
    /\ AppendAndDerive(MessageEvent(NextId))

AppendAction ==
    /\ Len(log) < MaxLog
    /\ \E resp \in RespChoices, tc \in TcChoices, think \in BOOLEAN :
          AppendAndDerive(ActionEvent(NextId, resp, tc, think))

AppendObservation ==
    /\ Len(log) < MaxLog
    /\ \E kind \in ObservationKinds, tc \in TcChoices :
          AppendAndDerive(ObservationBaseEvent(NextId, kind, tc))

AppendCondensationRequest ==
    /\ Len(log) < MaxLog
    /\ AppendAndDerive(CondensationRequest(NextId))

(* forgotten_event_ids name events that precede the Condensation *)
ForgetSets(n) == {S \in SUBSET (1..n) : Cardinality(S) <= MaxForget} \cup {1..n}

(* a summary text is a number: 0 is the empty string, k > 0 is the text    *)
(* the summarizer wrote for the Condensation with id k                     *)
CondensationShapes(id) ==
    {<<None, None>>, <<Some(id), None>>, <<None, Some(0)>>, <<Some(0), Some(0)>>}
      \cup {<<Some(id), Some(o)>> : o \in 0..MaxOffset}

AppendCondensation ==
    /\ Len(log) < MaxLog
    /\ Len(condensations(log)) < MaxCondensations
    /\ \E forgotten \in ForgetSets(Len(log)), shape \in CondensationShapes(NextId) :
          AppendAndDerive(Condensation(NextId, forgotten, shape[1], shape[2]))

Next ==
    \/ AppendMessage
    \/ AppendAction
    \/ AppendObservation
    \/ AppendCondensationRequest
    \/ AppendCondensation

Spec == Init /\ [][Next]_vars

(* ------------------- long histories with late observations ------------- *)
(* A user message arrives while a tool runs and the tool's observation is  *)
(* logged after the next response: turn j is                               *)
(*   ActionEvent j (thinking), observation of action j - 1, MessageEvent.  *)
Renumber(events) == [i \in DOMAIN events |-> [events[i] EXCEPT !.id = i]]

TurnEvents(j) ==
    IF j = 1
    THEN <<ActionEvent(0, 1, 1, TRUE), MessageEvent(0)>>
    ELSE <<ActionEvent(0, j, j, TRUE), ObservationBaseEvent(0, "ObservationEvent", j - 1),
           MessageEvent(0)>>

RECURSIVE Turns(_)
Turns(k) == IF k = 0 THEN <<>> ELSE Turns(k - 1) \o TurnEvents(k)

(* k turns, then the observation of the last action *)
LateObservationHistory(k) ==
    Renumber(Turns(k) \o <<ObservationBaseEvent(0, "ObservationEvent", k)>>)

(* k turns; the last turn also holds the observation of the first action   *)
(* of a later two-action response                                          *)
LateBatchHistory(k) ==
    Renumber(Turns(k - 1)
             \o <<ActionEvent(0, k, k, TRUE),
                  ObservationBaseEvent(0, "ObservationEvent", k - 1),
                  ObservationBaseEvent(0, "ObservationEvent", k + 1),
                  MessageEvent(0),
                  ActionEvent(0, k + 1, k + 1, FALSE),
                  ActionEvent(0, k + 1, k + 2, FALSE),
                  ObservationBaseEvent(0, "ObservationEvent", k + 2),
                  ObservationBaseEvent(0, "ObservationEvent", k)>>)

LongHistories ==
    {LateObservationHistory(k) : k \in 1..MaxTurns}
      \cup {LateBatchHistory(k) : k \in 2..MaxTurns}

Derived(derived) ==
    /\ view = derived.view
    /\ enforcement = derived.rounds
    /\ warned = derived.warned

InitLong ==
    /\ condenser = NoCondenser
    /\ cache = NoCache
    /\ log \in LongHistories
    /\ Derived(from_events(log))

(* a Condensation that forgets one or two events of a long history *)
ForgetInLongHistory ==
    /\ Len(condensations(log)) = 0
    /\ \E forgotten \in {S \in SUBSET (1..Len(log)) : Cardinality(S) \in 1..MaxLongForget} :
          AppendAndDerive(Condensation(NextId, forgotten, None, None))

NextLong == ForgetInLongHistory

SpecLong == InitLong /\ [][NextLong]_vars

(* ------------------ the log seen through context/view.py --------------- *)
AppendViewPy(event) ==
    /\ log' = Append(log, event)
    /\ view' = view_py_from_events(Append(log, event))
    /\ UNCHANGED <<enforcement, warned, condenser, cache>>

ViewPyMessage ==
    /\ Len(log) < MaxLog
    /\ AppendViewPy(MessageEvent(NextId))

ViewPyAction ==
    /\ Len(log) < MaxLog
    /\ \E resp \in RespChoices, tc \in TcChoices, think \in BOOLEAN :
          AppendViewPy(ActionEvent(NextId, resp, tc, think))

ViewPyObservation ==
    /\ Len(log) < MaxLog
    /\ \E tc \in TcChoices : AppendViewPy(ObservationBaseEvent(NextId, "ObservationEvent", tc))

ViewPyCondensation ==
    /\ Len(log) < MaxLog
    /\ Len(condensations(log)) < MaxCondensations
    /\ \E forgotten \in ForgetSets(Len(log)), shape \in CondensationShapes(NextId) :
          AppendViewPy(Condensation(NextId, forgotten, shape[1], shape[2]))

NextViewPy ==
    \/ ViewPyMessage
    \/ ViewPyAction
    \/ ViewPyObservation
    \/ ViewPyCondensation

SpecViewPy == Init /\ [][NextViewPy]_vars

(* ------------------------- a MemoryLRUCache in use ---------------------- *)
InitCache ==
    /\ log = <<>>
    /\ view = EmptyView
    /\ enforcement = <<>>
    /\ warned = FALSE
    /\ condenser = NoCondenser
    /\ cache \in {MemoryLRUCache(max_memory, maxsize) :
                    max_memory \in 0..MaxMemory, maxsize \in 0..MaxEntries}

(* cache[key] = value *)
SetItem ==
    /\ \E key \in Keys, new_size \in 1..MaxValueSize :
          cache' = cache_setitem(cache, key, new_size)
    /\ UNCHANGED <<log, view, enforcement, warned, condenser>>

(* del cache[key]; KeyError for a key that is not cached *)
DelItem ==
    /\ \E key \in Keys :
          /\ InCache(cache, key)
          /\ cache' = cache_delitem(cache, key)
    /\ UNCHANGED <<log, view, enforcement, warned, condenser>>

(* cache[key]; KeyError for a key that is not cached *)
GetItem ==
    /\ \E key \in Keys :
          /\ InCache(cache, key)
          /\ cache' = cache_getitem(cache, key)
    /\ UNCHANGED <<log, view, enforcement, warned, condenser>>

NextCache ==
    \/ SetItem
    \/ DelItem
    \/ GetItem

SpecCache == InitCache /\ [][NextCache]_vars

(* --------------------- a conversation with a condenser ----------------- *)
Configurations ==
    {cfg \in (1..MaxSizeBound) \X (0..KeepFirstBound) : valid_configuration(cfg[1], cfg[2])}

(* the LLM exposes no context window, or one that leaves TokenBudget tokens *)
Budgets == {None, Some(TokenBudget)}

InitCondenser ==
    /\ log = <<>>
    /\ view = EmptyView
    /\ enforcement = <<>>
    /\ warned = FALSE
    /\ cache = NoCache
    /\ condenser \in {LLMSummarizingCondenser(cfg[1], cfg[2], b, None) :
                        cfg \in Configurations, b \in Budgets}

(* the events of the conversation: everything but the Condensations *)
ConversationLength == Len(SelectSeq(log, LAMBDA e : ~IsCondensation(e)))

(* a new response, or one more action of the response of the last event *)
ResponseOfNewAction ==
    {Max(UsedResp \cup {0}) + 1}
      \cup (IF log # <<>> /\ IsActionEvent(log[Len(log)])
            THEN {log[Len(log)].llm_response_id} ELSE {})

(* the tool calls that have no observation yet *)
PendingToolCalls ==
    extract_action_tool_call_ids(log) \ extract_observation_tool_call_ids(log)

UserMessage ==
    /\ ConversationLength < MaxConversation
    /\ AppendAndDerive(MessageEvent(NextId))

AgentAction ==
    /\ ConversationLength < MaxConversation
    /\ \E resp \in ResponseOfNewAction, think \in BOOLEAN :
          AppendAndDerive(ActionEvent(NextId, resp, Max(UsedTc \cup {0}) + 1, think))

ToolObservation ==
    /\ ConversationLength < MaxConversation
    /\ \E tc \in PendingToolCalls :
          AppendAndDerive(ObservationBaseEvent(NextId, "ObservationEvent", tc))

(* conversation.condense(): the request marker *)
RequestCondensation ==
    /\ ConversationLength < MaxConversation
    /\ ~view.unhandled_condensation_request
    /\ AppendAndDerive(CondensationRequest(NextId))

(* the call returned the view unchanged, or raised: nothing is appended *)
NothingEmitted(should, token_failure, result) ==
    /\ condenser' = [condenser EXCEPT !.last =
           [called |-> TRUE, snapshot |-> view, should |-> should,
            token_failure |-> token_failure, raised |-> result.raised,
            llm_failed |-> result.llm_failed,
            events_from_tail |-> result.events_from_tail,
            previous_summary |-> result.previous_summary, emitted |-> None]]
    /\ UNCHANGED <<log, view, enforcement, warned, cache>>

(* the Condensation is appended to the log and the view derived again *)
Emitted(token_failure, result) ==
    /\ log' = Append(log, result.condensation[1])
    /\ DeriveNext(from_events(Append(log, result.condensation[1])))
    /\ cache' = cache
    /\ condenser' = [condenser EXCEPT !.last =
           [called |-> TRUE, snapshot |-> view, should |-> TRUE,
            token_failure |-> token_failure, raised |-> FALSE,
            llm_failed |-> result.llm_failed,
            events_from_tail |-> Some(result.events_from_tail),
            previous_summary |-> result.previous_summary,
            emitted |-> result.condensation]]

NotCalled == [raised |-> FALSE, llm_failed |-> FALSE, condensation |-> None,
              previous_summary |-> None, events_from_tail |-> None]

EmitOrNot(token_failure, result) ==
    IF result.raised
    THEN NothingEmitted(TRUE, token_failure,
                        [result EXCEPT !.events_from_tail = Some(result.events_from_tail)])
    ELSE Emitted(token_failure, result)

(* RollingCondenser.condense: get_condensation(view) if should_condense(view), *)
(* else the view as it is                                                  *)
CondenseWith(token_failure, llm_response) ==
    IF should_condense(view, condenser, token_failure)
    THEN EmitOrNot(token_failure,
                   get_condensation(view, condenser, token_failure, llm_response, NextId))
    ELSE NothingEmitted(FALSE, token_failure, NotCalled)

(* computing the budget or the estimate can raise only where it is attempted *)
TokenFailures == IF condenser.budget = None THEN {FALSE} ELSE BOOLEAN

(* what the summarizer can answer: an error, no text, a text *)
LLMResponses ==
    {LLMResponse(TRUE, None), LLMResponse(FALSE, None), LLMResponse(FALSE, Some(NextId))}

Condense ==
    /\ condenser.constructed
    /\ Len(condensations(log)) < MaxCondensations
    /\ \E token_failure \in TokenFailures, llm_response \in LLMResponses :
          CondenseWith(token_failure, llm_response)

NextCondenser ==
    \/ UserMessage
    \/ AgentAction
    \/ ToolObservation
    \/ RequestCondensation
    \/ Condense

SpecCondenser == InitCondenser /\ [][NextCondenser]_vars

(* ------------- a condenser that is fed a history of messages ----------- *)
(* the LLM handles: no context window; or a stub with a context window of  *)
(* StubContextWindow whose count_tokens always answers StubCountTokens     *)
LLMHandles ==
    {[context_window |-> None, count_tokens |-> None],
     [context_window |-> Some(StubContextWindow), count_tokens |-> Some(StubCountTokens)]}

(* every requested configuration, the rejected ones included *)
InitFed ==
    /\ log = <<>>
    /\ view = EmptyView
    /\ enforcement = <<>>
    /\ warned = FALSE
    /\ cache = NoCache
    /\ condenser \in
          {LLMSummarizingCondenser(
               max_size, keep_first,
               compute_token_budget(llm.context_window, token_margin_percent),
               llm.count_tokens) :
             max_size \in (0 - 1)..MaxSizeBound,
             keep_first \in (0 - 1)..MaxKeepFirstFed,
             llm \in LLMHandles}

(* the construction raised: there is no condenser to feed *)
FeedMessage ==
    /\ condenser.constructed
    /\ ConversationLength < MaxFed
    /\ AppendAndDerive(MessageEvent(NextId))

NextFed ==
    \/ FeedMessage
    \/ Condense

SpecFed == InitFed /\ [][NextFed]_vars

(* ------------------- the condensation cycle on a given log ------------- *)
(* the logs the cycle starts from: messages, condensation requests, and    *)
(* actions each followed or not by the observation of its tool call        *)
CycleKinds == {"MessageEvent", "CondensationRequest", "ActionEvent", "ObservationEvent"}

CycleShapes(n) ==
    {k \in [1..n -> CycleKinds] :
        \A i \in 1..n : k[i] = "ObservationEvent" => i > 1 /\ k[i - 1] = "ActionEvent"}

CycleEvent(kinds, i) ==
    IF kinds[i] = "MessageEvent" THEN MessageEvent(i)
    ELSE IF kinds[i] = "CondensationRequest" THEN CondensationRequest(i)
    ELSE IF kinds[i] = "ActionEvent" THEN ActionEvent(i, i, i, FALSE)
    ELSE ObservationBaseEvent(i, "ObservationEvent", i - 1)

CycleLogs ==
    UNION {{[i \in 1..n |-> CycleEvent(k, i)] : k \in CycleShapes(n)} : n \in 0..MaxCycleLog}

InitCycle ==
    /\ log \in CycleLogs
    /\ view = from_events(log).view
    /\ enforcement = from_events(log).rounds
    /\ warned = from_events(log).warned
    /\ cache = NoCache
    /\ condenser \in {LLMSummarizingCondenser(cfg[1], cfg[2], b, None) :
                        cfg \in Configurations, b \in Budgets}

(* one turn of the cycle: the view is the derived one; if should_condense  *)
(* then get_condensation(view) is appended and the view derived again. The *)
(* summarizer answers, with a text or without.                             *)
CondenseCycle ==
    /\ Len(condensations(log)) < MaxCycle
    /\ should_condense(view, condenser, FALSE)
    /\ \E llm_response \in {LLMResponse(FALSE, None), LLMResponse(FALSE, Some(NextId))} :
          CondenseWith(FALSE, llm_response)

NextCycle == CondenseCycle

(* the turns of the cycle that append a Condensation to the log *)
CondensationAppended ==
    /\ Len(condensations(log)) < MaxCycle
    /\ should_condense(view, condenser, FALSE)
    /\ \E llm_response \in {LLMResponse(FALSE, None), LLMResponse(FALSE, Some(NextId))} :
          /\ ~get_condensation(view, condenser, FALSE, llm_response, NextId).raised
          /\ log' = Append(log, get_condensation(view, condenser, FALSE,
                                                 llm_response, NextId).condensation[1])

(* the cycle is a loop: while it can append a Condensation, it does *)
SpecCycle == InitCycle /\ [][NextCycle]_vars /\ WF_log(CondensationAppended)

(* ------------- events appended while a condensation is computed -------- *)
(* the Condensation that get_condensation returned and that is not in the  *)
(* log yet                                                                 *)
Pending ==
    /\ condenser.last.emitted # None
    /\ condenser.last.emitted[1].id \notin Ids(log)

(* event ids are assigned at creation: a new event takes an id that no     *)
(* event of the log and no pending Condensation has                        *)
FreshId ==
    Max(Ids(log) \cup {0}
          \cup (IF condenser.last.emitted # None THEN {condenser.last.emitted[1].id} ELSE {}))
      + 1

(* a message is appended, whether or not a Condensation is being computed *)
MessageArrives ==
    /\ ConversationLength < MaxLateLog
    /\ log' = Append(log, MessageEvent(FreshId))
    /\ DeriveNext(from_events(Append(log, MessageEvent(FreshId))))
    /\ UNCHANGED <<condenser, cache>>

(* get_condensation returned a Condensation for the snapshot: it is held   *)
(* until it is appended                                                    *)
Returned(token_failure, result) ==
    /\ condenser' = [condenser EXCEPT !.last =
           [called |-> TRUE, snapshot |-> view, should |-> TRUE,
            token_failure |-> token_failure, raised |-> FALSE,
            llm_failed |-> result.llm_failed,
            events_from_tail |-> Some(result.events_from_tail),
            previous_summary |-> result.previous_summary,
            emitted |-> result.condensation]]
    /\ UNCHANGED <<log, view, enforcement, warned, cache>>

ReturnOrNot(token_failure, result) ==
    IF result.raised
    THEN NothingEmitted(TRUE, token_failure,
                        [result EXCEPT !.events_from_tail = Some(result.events_from_tail)])
    ELSE Returned(token_failure, result)

(* the condenser is invoked on the view of the moment *)
CondenseSnapshot ==
    /\ condenser.constructed
    /\ ~Pending
    /\ Len(condensations(log)) < MaxCondensations
    /\ \E token_failure \in TokenFailures, llm_response \in LLMResponses :
          IF should_condense(view, condenser, token_failure)
          THEN ReturnOrNot(token_failure,
                           get_condensation(view, condenser, token_failure,
                                            llm_response, FreshId))
          ELSE NothingEmitted(FALSE, token_failure, NotCalled)

(* the Condensation is appended and observed by the next derivation *)
AppendPending ==
    /\ Pending
    /\ log' = Append(log, condenser.last.emitted[1])
    /\ DeriveNext(from_events(Append(log, condenser.last.emitted[1])))
    /\ UNCHANGED <<condenser, cache>>

NextLate ==
    \/ MessageArrives
    \/ CondenseSnapshot
    \/ AppendPending

SpecLate == InitCondenser /\ [][NextLate]_vars

(* ========================= properties of the view ====================== *)
ViewIds == Ids(view.events)

IsSummaryEvent(e) == e.kind = "CondensationSummaryEvent"

(* C1: in the view every ActionEvent has an ObservationBaseEvent with the  *)
(* same tool_call_id and every ObservationBaseEvent has an ActionEvent     *)
(* with the same tool_call_id.                                             *)
C1_ToolCallsMatched ==
    \A i \in DOMAIN view.events :
        LET e == view.events[i]
        IN /\ IsActionEvent(e) =>
                 \E j \in DOMAIN view.events :
                     /\ IsObservationBaseEvent(view.events[j])
                     /\ view.events[j].tool_call_id = e.tool_call_id
           /\ IsObservationBaseEvent(e) =>
                 \E j \in DOMAIN view.events :
                     /\ IsActionEvent(view.events[j])
                     /\ view.events[j].tool_call_id = e.tool_call_id

(* C2: for every llm_response_id, the ActionEvents of the log that carry   *)
(* it are all in the view or none of them is.                              *)
C2_BatchesAtomic ==
    \A r \in {log[i].llm_response_id : i \in {j \in DOMAIN log : IsActionEvent(log[j])}} :
        LET batch == {log[i].id : i \in {j \in DOMAIN log :
                         IsActionEvent(log[j]) /\ log[j].llm_response_id = r}}
        IN batch \subseteq ViewIds \/ batch \cap ViewIds = {}

(* C3: for every tool loop identified over the log, all its event ids are  *)
(* in the view or none of them is.                                         *)
C3_ToolLoopsAtomic ==
    LET tool_loops == identify_tool_loops(log)
    IN \A k \in DOMAIN tool_loops :
        LET loop == {tool_loops[k][n] : n \in DOMAIN tool_loops[k]}
        IN loop \subseteq ViewIds \/ loop \cap ViewIds = {}

(* C4: the view contains no Condensation and no CondensationRequest.       *)
C4_NoMarkersInView ==
    \A i \in DOMAIN view.events :
        ~IsCondensation(view.events[i]) /\ ~IsCondensationRequest(view.events[i])

(* a handled request, an unhandled request and a non-empty view *)
C4_Witness ==
    /\ view.unhandled_condensation_request
    /\ \E i, j \in DOMAIN log :
          j < i /\ IsCondensation(log[i]) /\ IsCondensationRequest(log[j])
    /\ view.events # <<>>

ListedAsForgotten ==
    UNION {log[i].forgotten_event_ids : i \in {j \in DOMAIN log : IsCondensation(log[j])}}

IsToolEvent(e) == IsActionEvent(e) \/ IsObservationBaseEvent(e)

InSomeToolLoop(id) ==
    LET tool_loops == identify_tool_loops(log)
    IN \E k \in DOMAIN tool_loops : \E n \in DOMAIN tool_loops[k] : tool_loops[k][n] = id

Clamp(x, lo, hi) == IF x < lo THEN lo ELSE IF x > hi THEN hi ELSE x

ViewWithoutSummary == SelectSeq(view.events, LAMBDA e : ~IsSummaryEvent(e))

(* C7: the view is its kept events in log order with the summary event at  *)
(* index summary_offset clamped to [0, len(kept)].                         *)
C7_SummaryAtOffset ==
    LET found == relevant_summary(log, Len(log))
        kept == ViewWithoutSummary
    IN /\ \A i, j \in DOMAIN kept : i < j => kept[i].id < kept[j].id
       /\ found = <<>> => view.events = kept
       /\ found # <<>> =>
             LET at == Clamp(found[1].summary_offset[1], 0, Len(kept))
             IN view.events = SubSeq(kept, 1, at)
                                \o <<CondensationSummaryEvent(found[1].summary[1])>>
                                \o SubSeq(kept, at + 1, Len(kept))

SummaryPositions == {i \in DOMAIN view.events : IsSummaryEvent(view.events[i])}

(* C8 as stated: at most one summary event; one exactly when a Condensation*)
(* has a non-empty summary and an offset; its text is that of the last such.*)
C8_SummaryOfLastNonEmpty ==
    LET such == {i \in DOMAIN log :
                    /\ IsCondensation(log[i])
                    /\ log[i].summary # None /\ log[i].summary # Some(0)
                    /\ log[i].summary_offset # None}
    IN /\ Cardinality(SummaryPositions) <= 1
       /\ SummaryPositions # {} <=> such # {}
       /\ \A p \in SummaryPositions : such # {} /\ view.events[p].summary = log[Max(such)].summary

(* C8 amended: at most one summary event; one exactly when a Condensation  *)
(* has a summary that is not None (the empty string counts) and an offset; *)
(* its text is the summary of the last such Condensation of the log.       *)
C8_SummaryOfLastNotNone ==
    LET such == {i \in DOMAIN log :
                    /\ IsCondensation(log[i])
                    /\ log[i].summary # None
                    /\ log[i].summary_offset # None}
    IN /\ Cardinality(SummaryPositions) <= 1
       /\ SummaryPositions # {} <=> such # {}
       /\ \A p \in SummaryPositions : such # {} /\ view.events[p].summary = log[Max(such)].summary

(* two Condensations with different summaries and offsets, then one with a *)
(* summary but no offset would not fit the bound: the later of two wins    *)
C8_Witness ==
    /\ \E i, j \in DOMAIN log :
          /\ i < j
          /\ IsCondensation(log[i]) /\ IsCondensation(log[j])
          /\ log[i].summary # None /\ log[i].summary_offset # None
          /\ log[j].summary # None /\ log[j].summary_offset # None
          /\ log[i].summary # log[j].summary
          /\ \E p \in SummaryPositions : view.events[p].summary = log[j].summary
    /\ Len(view.events) > 1

(* C9: the flag is true exactly when the log has a CondensationRequest     *)
(* that no Condensation follows.                                           *)
C9_UnhandledRequest ==
    view.unhandled_condensation_request
        <=> \E i \in DOMAIN log :
               /\ IsCondensationRequest(log[i])
               /\ \A j \in DOMAIN log : j > i => ~IsCondensation(log[j])

(* request, Condensation, request: the second request is unhandled *)
C9_Witness ==
    /\ view.unhandled_condensation_request
    /\ \E i, j, k \in DOMAIN log :
          /\ i < j /\ j < k
          /\ IsCondensationRequest(log[i])
          /\ IsCondensation(log[j])
          /\ IsCondensationRequest(log[k])

(* the removal a round has to make on a view: that of the first enforcer,  *)
(* in the order of the properties list, whose drop set is not empty        *)
RoundOwed(view_events) ==
    IF ToolCallMatchingEnforce(view_events, log) # {}
    THEN [prop |-> "ToolCallMatchingProperty",
          removed |-> ToolCallMatchingEnforce(view_events, log)]
    ELSE IF BatchAtomicityEnforce(view_events, log) # {}
    THEN [prop |-> "BatchAtomicityProperty",
          removed |-> BatchAtomicityEnforce(view_events, log)]
    ELSE IF ToolLoopAtomicityEnforce(view_events, log) # {}
    THEN [prop |-> "ToolLoopAtomicityProperty",
          removed |-> ToolLoopAtomicityEnforce(view_events, log)]
    ELSE [prop |-> "none", removed |-> {}]

RECURSIVE RoundsFollowRule(_, _)
RoundsFollowRule(view_events, k) ==
    IF k > Len(enforcement)
    THEN /\ view.events = view_events
         /\ warned \/ RoundOwed(view_events).removed = {}
    ELSE /\ enforcement[k].removed # {}
         /\ enforcement[k] = RoundOwed(view_events)
         /\ RoundsFollowRule(WithoutIds(view_events, enforcement[k].removed), k + 1)

(* C10: enforcement makes at most max_iterations rounds; each round removes*)
(* the drop set of the first enforcer that reports one and restarts; it    *)
(* stops at a pass without drops or at the cap (and only then warns); when *)
(* it stops before the cap no enforcer reports a drop on the view.         *)
C10_EnforcementRounds ==
    /\ Len(enforcement) <= max_iterations
    /\ warned <=> Len(enforcement) = max_iterations
    /\ RoundsFollowRule(kept_with_summary(log), 1)
    /\ ~warned => /\ ToolCallMatchingEnforce(view.events, log) = {}
                  /\ BatchAtomicityEnforce(view.events, log) = {}
                  /\ ToolLoopAtomicityEnforce(view.events, log) = {}

(* the cap is reached and the returned view still owes a removal *)
C10_Witness ==
    /\ warned
    /\ Len(enforcement) = max_iterations
    /\ RoundOwed(view.events).removed # {}

(* ====================== manipulation indices =========================== *)
(* C11: the manipulation indices of the view contain 0 and                 *)
(* len(view.events); for an empty view the set is exactly {0}.             *)
C11_BoundariesAdmissible ==
    /\ 0 \in view.manipulation_indices
    /\ Len(view.events) \in view.manipulation_indices
    /\ view.events = <<>> => view.manipulation_indices = {0}

(* a view that starts with a batch of two actions, so that some index is   *)
(* not admissible                                                          *)
C11_Witness ==
    /\ Len(view.events) >= 3
    /\ IsActionEvent(view.events[1]) /\ IsActionEvent(view.events[2])
    /\ view.events[1].llm_response_id = view.events[2].llm_response_id
    /\ view.manipulation_indices # 0..Len(view.events)

(* the code's index i lies in min_idx < i <= max_idx of a batch of the view *)
InsideViewBatch(i) ==
    \E r \in {view.events[p].llm_response_id :
                 p \in {q \in DOMAIN view.events : IsActionEvent(view.events[q])}} :
        LET at == {p \in DOMAIN view.events :
                      IsActionEvent(view.events[p]) /\ view.events[p].llm_response_id = r}
        IN Min(at) - 1 < i /\ i <= Max(at) - 1

(* the code's index i lies in loop_start < i <= loop_end of a tool loop    *)
(* range computed over the view                                            *)
InsideViewToolLoop(i) ==
    \E k \in DOMAIN tool_loop_ranges(view.events) :
        /\ tool_loop_ranges(view.events)[k][1] - 1 < i
        /\ i <= tool_loop_ranges(view.events)[k][2] - 1

(* C12: the manipulation indices of a non-empty view are the indices of    *)
(* 0..len(view) that lie inside no batch of the view and inside no tool    *)
(* loop range computed over the view; tool-call matching excludes nothing. *)
C12_IndicesOutsideAtomicUnits ==
    /\ ToolCallMatchingManipulationIndices(view.events, log) = 0..Len(view.events)
    /\ view.events # <<>> =>
          view.manipulation_indices =
              {i \in 0..Len(view.events) : ~InsideViewBatch(i) /\ ~InsideViewToolLoop(i)}

(* a view that a Condensation shortened and that holds a tool loop *)
C12_Witness ==
    /\ Len(condensations(log)) > 0
    /\ \E id \in ListedAsForgotten : id \in DOMAIN log /\ IsLLMConvertibleEvent(log[id])
    /\ \E i \in 0..Len(view.events) : InsideViewToolLoop(i)

(* the ids of the slice V[i:j] of the view, i and j being indices of the code *)
ViewSliceIds(i, j) == {view.events[p].id : p \in (i + 1)..j}

(* C13: for any two manipulation indices i <= j of the view V, appending a *)
(* Condensation that forgets exactly V[i:j] yields a view whose events are *)
(* V's events minus V[i:j]: enforcement drops no other event.              *)
C13_ForgettingBetweenIndicesIsExact ==
    \A i \in view.manipulation_indices, j \in view.manipulation_indices :
        i <= j =>
            from_events(Append(log, Condensation(NextId, ViewSliceIds(i, j), None, None))).view.events
                = WithoutIds(view.events, ViewSliceIds(i, j))

(* C14: feeding the events of the view, without the synthetic summary     *)
(* event, back in as a log gives the same events again.                    *)
C14_DerivationIdempotent ==
    from_events(ViewWithoutSummary).view.events = ViewWithoutSummary

(* ============================ the condenser ============================ *)
(* the view the last call of the condenser was given *)
Snapshot == condenser.last.snapshot

(* the token estimate of the snapshot was computed and exceeds the budget *)
OverBudget ==
    /\ condenser.budget # None
    /\ ~condenser.last.token_failure
    /\ count_tokens(condenser.count_tokens, Snapshot.events) > condenser.budget[1]

(* C16 as stated: should_condense is true on an unhandled request, else    *)
(* true when a budget exists and the estimate exceeds it, else it equals   *)
(* len(view) > max_size.                                                   *)
C16_ThreeStepRule ==
    condenser.last.called =>
        (condenser.last.should <=>
            \/ Snapshot.unhandled_condensation_request
            \/ OverBudget
            \/ Len(Snapshot.events) > condenser.max_size)

(* C16 amended: should_condense is true on an unhandled request; else,     *)
(* when a token budget exists and the estimate is computed, it equals      *)
(* estimate > budget whatever the number of events; else (no budget, or    *)
(* the computation raised) it equals len(view) > max_size.                 *)
C16_TokenCheckDecides ==
    condenser.last.called =>
        (condenser.last.should <=>
            \/ Snapshot.unhandled_condensation_request
            \/ OverBudget
            \/ /\ condenser.budget = None \/ condenser.last.token_failure
               /\ Len(Snapshot.events) > condenser.max_size)

(* no request, the estimate is within the budget, more than max_size       *)
(* events: the condenser was asked and did not condense                    *)
C16_Witness ==
    /\ condenser.last.called
    /\ ~Snapshot.unhandled_condensation_request
    /\ condenser.budget # None /\ ~condenser.last.token_failure
    /\ count_tokens(condenser.count_tokens, Snapshot.events) <= condenser.budget[1]
    /\ Len(Snapshot.events) > condenser.max_size
    /\ ~condenser.last.should

(* t = max(0, target - len(view[:keep_first]) - 1), target being           *)
(* len(view) // 2 on an unhandled request and max_size // 2 otherwise      *)
ClaimedTail ==
    Max({0, (IF Snapshot.unhandled_condensation_request
             THEN Len(Snapshot.events) \div 2
             ELSE condenser.max_size \div 2)
            - Min({condenser.keep_first, Len(Snapshot.events)}) - 1})

(* the ids of view[keep_first : len(view) - t] *)
ClaimedForgotten(t) ==
    {Snapshot.events[p].id :
        p \in (condenser.keep_first + 1)..(Len(Snapshot.events) - t)}

(* C17: without a token budget (and with a summarizer that answers),       *)
(* get_condensation(view) returns a                                        *)
(* Condensation whose forgotten_event_ids are the ids of                   *)
(* view[keep_first : len(view) - t], whose summary_offset is keep_first    *)
(* and whose summary is the summarizer's text.                             *)
C17_CountBasedCondensation ==
    (/\ condenser.last.called /\ condenser.last.should /\ condenser.budget = None
     /\ ~condenser.last.llm_failed) =>
        /\ condenser.last.emitted # None
        /\ condenser.last.emitted[1].forgotten_event_ids = ClaimedForgotten(ClaimedTail)
        /\ condenser.last.emitted[1].summary_offset = Some(condenser.keep_first)
        /\ condenser.last.emitted[1].summary \in {None, Some(condenser.last.emitted[1].id)}
        /\ log[Len(log)] = condenser.last.emitted[1]

(* C18: when the view V has at least keep_first events and                 *)
(* C = get_condensation(V) is appended, the first keep_first events of the *)
(* new view are V[:keep_first], followed by the new summary event at index *)
(* keep_first.                                                             *)
C18_PrefixRetained ==
    (/\ condenser.last.emitted # None
     /\ Len(Snapshot.events) >= condenser.keep_first) =>
        /\ Len(view.events) > condenser.keep_first
        /\ SubSeq(view.events, 1, condenser.keep_first)
              = SubSeq(Snapshot.events, 1, condenser.keep_first)
        /\ IsSummaryEvent(view.events[condenser.keep_first + 1])
        /\ Some(view.events[condenser.keep_first + 1].summary)
              = Some(condenser.last.emitted[1].summary)

(* C19: every id in the forgotten_event_ids of a Condensation that the    *)
(* condenser emitted is the id of an event that is in the log before that  *)
(* Condensation, and no CondensationSummaryEvent is in the log.            *)
C19_ForgottenIdsPrecede ==
    /\ \A i \in DOMAIN log :
          IsCondensation(log[i]) =>
              log[i].forgotten_event_ids \subseteq {log[j].id : j \in 1..(i - 1)}
    /\ \A i \in DOMAIN log : ~IsSummaryEvent(log[i])

(* too few events for keep_first to fit while leaving at least one        *)
(* forgotten and one tail event                                            *)
NoValidRange == Len(Snapshot.events) < condenser.keep_first + 2

(* the ids of the log events that the view of the last call showed *)
SnapshotLogIds ==
    {Snapshot.events[p].id :
        p \in {q \in DOMAIN Snapshot.events : ~IsSummaryEvent(Snapshot.events[q])}}

(* C20: when condensation is requested and no valid range exists, the      *)
(* condenser (its summarizer answering) does not raise and emits a Condensation with summary_offset 0 *)
(* that forgets every prior event; when a valid range exists it emits a    *)
(* normal condensation (summary_offset = keep_first).                      *)
C20_HardReset ==
    (/\ condenser.last.called /\ Snapshot.unhandled_condensation_request
     /\ ~condenser.last.llm_failed) =>
        /\ ~condenser.last.raised
        /\ condenser.last.emitted # None
        /\ NoValidRange =>
              /\ condenser.last.emitted[1].summary_offset = Some(0)
              /\ SnapshotLogIds \subseteq condenser.last.emitted[1].forgotten_event_ids
        /\ ~NoValidRange =>
              condenser.last.emitted[1].summary_offset = Some(condenser.keep_first)

(* C21: when the summarizer call fails, get_condensation produces no      *)
(* Condensation and the error surfaces, the log is unchanged, and          *)
(* should_condense on the view derived again from the log is still true.   *)
C21_FailedSummaryLeavesLog ==
    [][(condenser'.last.called /\ condenser'.last.llm_failed) =>
          /\ condenser'.last.raised
          /\ condenser'.last.emitted = None
          /\ log' = log
          /\ should_condense(from_events(log').view, condenser',
                             condenser'.last.token_failure)]_vars

(* the summarizer failed on a view that was over its limit without any     *)
(* request                                                                 *)
C21_Witness ==
    /\ condenser.last.called
    /\ condenser.last.llm_failed
    /\ ~Snapshot.unhandled_condensation_request
    /\ Len(Snapshot.events) > 2

(* the last call was given a view of n MessageEvents by a condenser        *)
(* without token budget, and its summarizer answered                       *)
FedMessages(n) ==
    /\ condenser.last.called
    /\ condenser.budget = None
    /\ ~condenser.last.llm_failed
    /\ Len(Snapshot.events) = n
    /\ \A p \in DOMAIN Snapshot.events : Snapshot.events[p].kind = "MessageEvent"

CountTriggered ==
    /\ condenser.last.called
    /\ condenser.last.emitted # None
    /\ ~Snapshot.unhandled_condensation_request
    /\ condenser.budget = None \/ condenser.last.token_failure

C24_SummaryAccessorsAgree ==
    /\ ~summary_event(view).raised
    /\ \A p \in SummaryPositions :
          /\ summary_event_index(view) = Some(p - 1)
          /\ summary_event(view).event = Some(view.events[p])
    /\ SummaryPositions = {} =>
          /\ summary_event_index(view) = None
          /\ summary_event(view).event = None

(* ====================== the module context/view.py ===================== *)
(* the ActionEvents of the log that no Condensation lists, after batch     *)
(* atomicity                                                               *)
SurvivingActions ==
    {i \in DOMAIN log :
        /\ IsActionEvent(log[i])
        /\ log[i].id \notin enforce_batch_atomicity(log, forgotten_event_ids(log))}

(* C25: when the log has an ActionEvent with thinking blocks and an        *)
(* ActionEvent survives the condensations, the view has an ActionEvent     *)
(* with thinking blocks; when all of them were forgotten, the most recent  *)
(* one is in the view with its whole batch and their observations.         *)
C25_ThinkingBlocksPreserved ==
    (events_with_thinking(log) # {} /\ SurvivingActions # {}) =>
        /\ \E p \in DOMAIN view.events : has_thinking_blocks(view.events[p])
        /\ (\A i \in events_with_thinking(log) :
                log[i].id \in enforce_batch_atomicity(log, forgotten_event_ids(log)))
              => batch_event_ids(log, log[Max(events_with_thinking(log))]) \subseteq ViewIds

(* ======================== the token fallback =========================== *)
(* no budget could be computed for the last call, or the computation raised *)
NoTokenBudget == condenser.budget = None \/ condenser.last.token_failure

(* C26 as stated: without a token budget or estimate, should_condense     *)
(* returns len(view) > max_size and get_condensation uses the count-based  *)
(* tail size.                                                              *)
C26_SilentCountFallback ==
    (condenser.last.called /\ NoTokenBudget) =>
        /\ condenser.last.should <=> Len(Snapshot.events) > condenser.max_size
        /\ condenser.last.should => condenser.last.events_from_tail = Some(ClaimedTail)

(* C26 amended: without a token budget or estimate, should_condense        *)
(* returns true on an unhandled condensation request and                   *)
(* len(view) > max_size otherwise, and get_condensation uses the           *)
(* count-based tail size.                                                  *)
C26_FallbackAfterRequest ==
    (condenser.last.called /\ NoTokenBudget) =>
        /\ condenser.last.should <=>
              \/ Snapshot.unhandled_condensation_request
              \/ Len(Snapshot.events) > condenser.max_size
        /\ condenser.last.should => condenser.last.events_from_tail = Some(ClaimedTail)

(* the token computation of a condenser with a budget raised on a view of  *)
(* more than max_size events without request, and a Condensation followed  *)
C26_Witness ==
    /\ condenser.last.called
    /\ condenser.budget # None /\ condenser.last.token_failure
    /\ ~Snapshot.unhandled_condensation_request
    /\ Len(Snapshot.events) > condenser.max_size
    /\ condenser.last.emitted # None

(* C27: with the stub LLM (context window 100, count_tokens 200) and a     *)
(* token computation that does not raise, should_condense is true for      *)
(* every max_size and every view length, without any request.              *)
C27_ScenarioS8 ==
    (/\ condenser.last.called
     /\ condenser.count_tokens = Some(StubCountTokens)
     /\ condenser.budget
           = compute_token_budget(Some(StubContextWindow), token_margin_percent)
     /\ ~condenser.last.token_failure) =>
        condenser.last.should

(* the stub condenser with max_size 6 condensed a view of one message      *)
(* without request                                                         *)
C27_Witness ==
    /\ condenser.last.called
    /\ condenser.count_tokens = Some(StubCountTokens)
    /\ ~condenser.last.token_failure
    /\ condenser.max_size = 6
    /\ Len(Snapshot.events) = 1
    /\ ~Snapshot.unhandled_condensation_request
    /\ condenser.last.should
    /\ condenser.last.emitted # None

(* the positions of the Condensations in the log *)
CondensationPositions == {i \in DOMAIN log : log[i].kind = "Condensation"}

(* C28: view.condensations lists exactly the Condensation events of the    *)
(* log, in log order, those without summary included and the               *)
(* CondensationRequests excluded; most_recent_condensation is the last of  *)
(* them, or None when the log has no Condensation.                         *)
C28_CondensationsListed ==
    /\ Len(view.condensations) = Cardinality(CondensationPositions)
    /\ \A i \in CondensationPositions :
          \E k \in DOMAIN view.condensations : view.condensations[k] = log[i]
    /\ \A k \in DOMAIN view.condensations :
          \E i \in CondensationPositions : view.condensations[k] = log[i]
    /\ \A k, l \in DOMAIN view.condensations :
          k < l => view.condensations[k].id < view.condensations[l].id
    /\ most_recent_condensation(view)
          = IF CondensationPositions = {} THEN None
            ELSE Some(log[Max(CondensationPositions)])

(* a request, a Condensation without summary, then one with a summary *)
C28_Witness ==
    /\ Len(view.condensations) = 2
    /\ view.condensations[1].summary = None
    /\ view.condensations[2].summary # None
    /\ \E i \in DOMAIN log : IsCondensationRequest(log[i])

(* ====================== ToolCallMatchingProperty ======================= *)
(* the event lists enforce is asked about: the LLM-convertible events of   *)
(* the log, the kept events with the summary, and the view                 *)
EnforceInputs ==
    {SelectSeq(log, IsLLMConvertibleEvent), kept_with_summary(log), view.events}

(* C29: for every view, after the events that enforce returned are removed *)
(* a second enforce returns the empty set; what it returns are ids of      *)
(* events of the view.                                                     *)
C29_EnforceIdempotent ==
    \A v \in EnforceInputs :
        /\ ToolCallMatchingEnforce(v, log) \subseteq Ids(v)
        /\ ToolCallMatchingEnforce(WithoutIds(v, ToolCallMatchingEnforce(v, log)), log) = {}

(* enforce removes an orphaned action and an orphaned observation and      *)
(* leaves a matched pair                                                   *)
C29_Witness ==
    \E v \in EnforceInputs :
        /\ \E i, j \in DOMAIN v :
              /\ IsActionEvent(v[i]) /\ v[i].id \in ToolCallMatchingEnforce(v, log)
              /\ IsObservationBaseEvent(v[j]) /\ v[j].id \in ToolCallMatchingEnforce(v, log)
        /\ WithoutIds(v, ToolCallMatchingEnforce(v, log)) # <<>>

(* ============================ MemoryLRUCache =========================== *)
(* the total size of the cached values *)
RECURSIVE SizeOfValues(_)
SizeOfValues(keys) ==
    IF keys = {} THEN 0
    ELSE (LET k == CHOOSE x \in keys : TRUE
          IN cache.values[k] + SizeOfValues(keys \ {k}))

(* C30: after any sequence of assignments and deletions the cache holds at *)
(* most maxsize entries and the total size of its values is at most        *)
(* max_memory.                                                             *)
C30_BothLimitsEnforced ==
    /\ Len(cache.order) <= cache.maxsize
    /\ SizeOfValues(Keys) <= cache.max_memory

(* C37: after any sequence of assignments and deletions, evictions       *)
(* included, current_memory is the sum of the sizes of the stored values   *)
(* and is never negative.                                                  *)
C37_ExactMemoryAccounting ==
    /\ cache.current_memory = SizeOfValues(Keys)
    /\ cache.current_memory >= 0

(* ========================= tool-loop identification ==================== *)
(* log[p] is the first action of a batch that contains thinking blocks *)
StartsThinkingBatch(p) ==
    /\ IsActionEvent(log[p])
    /\ \A q \in 1..(p - 1) :
          ~(IsActionEvent(log[q]) /\ log[q].llm_response_id = log[p].llm_response_id)
    /\ \E q \in DOMAIN log :
          /\ has_thinking_blocks(log[q])
          /\ log[q].llm_response_id = log[p].llm_response_id

(* the last position of the run of actions and observations that starts at p *)
RunEnd(p) ==
    Max({e \in p..Len(log) : \A q \in p..e : IsToolEvent(log[q])})

(* the loops as the claim describes them, scanning the log from p *)
RECURSIVE ClaimedLoops(_)
ClaimedLoops(p) ==
    IF p > Len(log) THEN <<>>
    ELSE IF StartsThinkingBatch(p)
         THEN << [n \in 1..(RunEnd(p) - p + 1) |-> log[p + n - 1].id] >>
                \o ClaimedLoops(RunEnd(p) + 1)
         ELSE ClaimedLoops(p + 1)

(* C31: the tool loops identified over the log are the maximal runs of     *)
(* actions and observations that begin at the first action of a batch with *)
(* thinking blocks and end before the first event that is neither.         *)
C31_ToolLoopsAreMaximalRuns ==
    identify_tool_loops(log) = ClaimedLoops(1)

(* ========================= progress of condensation ==================== *)
ShouldCondenseNow == should_condense(view, condenser, FALSE)

(* the events with the text of the summary left out *)
Shape(events) == [i \in DOMAIN events |-> [events[i] EXCEPT !.summary = None]]

(* the last turn of the cycle appended a Condensation and the view holds   *)
(* the same events as the view it was computed from, but for the text of   *)
(* the summary                                                             *)
TurnWithoutProgress ==
    /\ condenser.last.emitted # None
    /\ Shape(view.events) = Shape(Snapshot.events)
    /\ view.unhandled_condensation_request = Snapshot.unhandled_condensation_request

(* C32: the cycle of deriving the view and appending get_condensation(view) *)
(* while should_condense holds comes to a view on which should_condense is  *)
(* false after finitely many condensations, whatever the trigger. The turn  *)
(* depends on the events of the view alone, so a turn that leaves them as   *)
(* they were must find should_condense false: else every later turn does    *)
(* the same and the cycle never ends.                                       *)
C32_CondensationMakesProgress == TurnWithoutProgress => ~ShouldCondenseNow

(* the cycle comes to rest: should_condense is false at some turn *)
CycleComesToRest == <>(~ShouldCondenseNow)

(* the trigger is the event count or a request: the condenser has no       *)
(* token budget                                                            *)
CountOrRequestCycleComesToRest == condenser.budget = None => <>(~ShouldCondenseNow)

(* ======================= the order of the enforcers ==================== *)
PropertyNames ==
    {"ToolCallMatchingProperty", "BatchAtomicityProperty", "ToolLoopAtomicityProperty"}

(* the orders in which the three properties can be listed *)
PropertyOrders ==
    {order \in [1..3 -> PropertyNames] : \A i, j \in 1..3 : order[i] = order[j] => i = j}

EnforceOf(name, view_events, events) ==
    IF name = "ToolCallMatchingProperty" THEN ToolCallMatchingEnforce(view_events, events)
    ELSE IF name = "BatchAtomicityProperty" THEN BatchAtomicityEnforce(view_events, events)
    ELSE ToolLoopAtomicityEnforce(view_events, events)

(* the drops of the first property of the order that reports any *)
FirstDropIn(order, view_events, events) ==
    IF EnforceOf(order[1], view_events, events) # {}
    THEN EnforceOf(order[1], view_events, events)
    ELSE IF EnforceOf(order[2], view_events, events) # {}
    THEN EnforceOf(order[2], view_events, events)
    ELSE EnforceOf(order[3], view_events, events)

(* the fixpoint loop with the properties in the given order; the result    *)
(* and whether the cap of max_iterations was reached                       *)
RECURSIVE EnforceInOrder(_, _, _, _)
EnforceInOrder(order, view_events, events, n) ==
    IF n = max_iterations THEN [events |-> view_events, capped |-> TRUE]
    ELSE IF FirstDropIn(order, view_events, events) = {}
    THEN [events |-> view_events, capped |-> FALSE]
    ELSE EnforceInOrder(order,
                        WithoutIds(view_events, FirstDropIn(order, view_events, events)),
                        events, n + 1)

(* no property reports a drop on these events *)
NoDrops(view_events, events) ==
    \A name \in PropertyNames : EnforceOf(name, view_events, events) = {}

(* the subsequences of the kept events on which no property reports a drop *)
StableSubsequences(kept, events) ==
    {sub \in {WithoutIds(kept, gone) : gone \in SUBSET Ids(kept)} : NoDrops(sub, events)}

(* C33: when no order of the three enforcers reaches the cap, the fixpoint *)
(* loop yields the same view events in every order, and they are the       *)
(* largest subsequence of the kept events on which no enforcer reports a   *)
(* drop.                                                                   *)
C33_OrderIndependentEnforcement ==
    (\A order \in PropertyOrders :
        ~EnforceInOrder(order, kept_with_summary(log), log, 0).capped)
    => /\ \A order \in PropertyOrders :
             EnforceInOrder(order, kept_with_summary(log), log, 0).events = view.events
       /\ view.events \in StableSubsequences(kept_with_summary(log), log)
       /\ \A sub \in StableSubsequences(kept_with_summary(log), log) :
             Ids(sub) \subseteq ViewIds

(* two different properties removed events, in two rounds *)
C33_Witness ==
    /\ Len(enforcement) >= 2
    /\ enforcement[1].prop # enforcement[2].prop
    /\ \A order \in PropertyOrders :
          ~EnforceInOrder(order, kept_with_summary(log), log, 0).capped

(* ===================== what enforcement leaves alone =================== *)
NonToolEvents(events) == SelectSeq(events, LAMBDA e : ~IsToolEvent(e))

(* C34: the kept events that are neither actions nor observations, the     *)
(* inserted summary included, are all in the final view, in the same       *)
(* order.                                                                  *)
C34_OnlyToolEventsRemoved ==
    NonToolEvents(view.events) = NonToolEvents(kept_with_summary(log))

(* ====================== the previous summary in the prompt ============= *)
(* the summary events of the view that get_condensation was given *)
SnapshotSummaries ==
    {Snapshot.events[p].summary :
        p \in {q \in DOMAIN Snapshot.events : IsSummaryEvent(Snapshot.events[q])}}

(* get_condensation built the prompt *)
PromptBuilt ==
    /\ condenser.last.called
    /\ condenser.last.should
    /\ ~condenser.last.raised \/ condenser.last.llm_failed

(* C35: the previous_summary of the prompt is the text of the summary      *)
(* event of the view, and it is empty only when the view has no summary    *)
(* event.                                                                  *)
C35_PreviousSummaryCarried ==
    PromptBuilt =>
        IF SnapshotSummaries = {} THEN condenser.last.previous_summary = None
        ELSE condenser.last.previous_summary \in SnapshotSummaries

(* ==================== a Condensation that arrives late ================= *)
(* the Condensation that was appended last is the one held by the condenser *)
JustAppended ==
    /\ log # <<>>
    /\ condenser.last.emitted # None
    /\ log[Len(log)] = condenser.last.emitted[1]

LateCondensation == condenser.last.emitted[1]

(* the messages appended between the snapshot and the Condensation *)
LateMessages ==
    SelectSeq(log, LAMBDA e : e.kind = "MessageEvent" /\ e.id > LateCondensation.id)

(* V[:keep_first] *)
SnapshotHead ==
    SubSeq(Snapshot.events, 1, Min({condenser.keep_first, Len(Snapshot.events)}))

(* the events of V[keep_first:] that the Condensation does not forget *)
SnapshotTailKept ==
    SelectSeq(SubSeq(Snapshot.events, Len(SnapshotHead) + 1, Len(Snapshot.events)),
              LAMBDA e : e.id \notin LateCondensation.forgotten_event_ids)

(* C36: when the Condensation computed from the snapshot V (the summarizer *)
(* having answered with a text) is appended after late messages N, the     *)
(* view is V[:keep_first], the summary, the tail kept by the Condensation  *)
(* and N: no late message is forgotten, the summary is at index keep_first.*)
C36_LateEventsKept ==
    (JustAppended /\ LateCondensation.summary # None)
    => view.events = SnapshotHead
                       \o <<CondensationSummaryEvent(LateCondensation.summary[1])>>
                       \o SnapshotTailKept
                       \o LateMessages

(* a Condensation that forgets events was appended after a late message *)
C36_Witness ==
    /\ JustAppended
    /\ LateCondensation.summary # None
    /\ LateCondensation.forgotten_event_ids # {}
    /\ SnapshotTailKept # <<>>
    /\ LateMessages # <<>>

====
